---- MODULE Spec2Model ----
(***************************************************************************)
(* Request authentication and session-validation pipeline of               *)
(* handyhub-admin-svc: the gin handler chain of an admin route             *)
(* (setRouteName, RequireAuth, RequireAdminRights, handler), the redis     *)
(* session cache (cacheService) and the two authoritative session sources  *)
(* (AuthClient.GetSessionById, the remote variant of the middleware, and   *)
(* session.repository, the local variant).                                 *)
(*                                                                         *)
(* Time is an integer clock counted in the unit of the cache expiration    *)
(* (minutes).  A redis entry written with a TTL d at time t is readable    *)
(* while now < t + d.                                                      *)
(***************************************************************************)
EXTENDS Integers, Sequences, FiniteSets, TLC

VARIABLES
    variant,   \* which middleware is wired: "remote" (AuthClient) or "local" (sessionRepo)
    now,       \* the clock
    store,     \* the authoritative session records, by session id
    cache,     \* the redis session entries, by key
    req,       \* the request in flight: its position in the handler chain and what it did
    hist,      \* history of the sessions and of the cache, kept for the properties
    httpTimeout, \* httpClient.Timeout of the AuthClient, in seconds; 0 is no timeout
    procs,     \* concurrent validateSession calls, each with its position and locals
    rabbit,    \* the RabbitMQ client: its connection, its channel, what Close returned
    search     \* a GetAllUsers call of the user service: configuration and request

vars == <<variant, now, store, cache, req, hist, httpTimeout, procs, rabbit, search>>

----------------------------------------------------------------------------
(* Bounds of the model *)

\* the clock stops here
MaxTime == 3

\* cfg.Cache.SessionExpirationMinutes, a deployment setting
SessionExpirationMinutes == 2

\* a session is issued at time 0 and expires at this time
SessionLifetime == 2

\* cfg.ExternalServices.AuthService.Timeout when the configuration sets it
AuthServiceTimeout == 1

\* the largest page number and the largest user count of a GetAllUsers call
MaxPage == 2
MaxTotalCount == 3

UserIds == {"a", "b"}
SessionIds == {"a"}
Roles == {"admin", "client"}

\* a *time.Time is a sequence: empty when nil, else its one time
NilTime == << >>

----------------------------------------------------------------------------
(* Sessions *)

\* models.Session / session.Session
Session(sid, uid, active, exp, logout, last) ==
    [sessionId |-> sid, userId |-> uid, isActive |-> active,
     expiresAt |-> exp, logoutAt |-> logout, lastActiveAt |-> last]

\* what a pointer to a session that is nil holds
NilSession == [nil |-> TRUE]

----------------------------------------------------------------------------
(* The redis session cache: cacheService *)

\* the key validateSession reads: fmt.Sprintf(redisKeyPattern, userID, sessionID)
redisKey(userID, sessionID) == <<"session", userID, sessionID>>

\* the key CacheActiveSession writes
CacheActiveSessionKey(session) == <<"session", session.sessionId, session.sessionId>>

\* client.Set(key, data, ttl) at time t
RedisSet(cch, key, session, ttl, t) ==
    [k \in DOMAIN cch \cup {key} |->
        IF k = key THEN [session |-> session, expireAt |-> t + ttl] ELSE cch[k]]

\* redis drops the entries whose TTL has run out at time t
RedisExpire(cch, t) ==
    [k \in {x \in DOMAIN cch : t < cch[x].expireAt} |-> cch[k]]

\* GetActiveSession: (session, err); redis.Nil is (nil, nil)
GetActiveSession(cch, key, fault) ==
    IF fault = "err" THEN [session |-> NilSession, err |-> "redis get error"]
    ELSE IF key \notin DOMAIN cch THEN [session |-> NilSession, err |-> ""]
    ELSE [session |-> cch[key].session, err |-> ""]

\* UpdateSessionActivity left out of the cache-hit path
UpdateSessionActivityLeftOut(cch, key, t, getFault, setFault) == cch

\* UpdateSessionActivity: get, stamp lastActiveAt, set again with the full TTL
UpdateSessionActivity(cch, key, t, getFault, setFault) ==
    LET got == GetActiveSession(cch, key, getFault)
    IN  IF got.err # "" \/ got.session = NilSession THEN cch
        ELSE IF setFault = "err" THEN cch
        ELSE RedisSet(cch, key, [got.session EXCEPT !.lastActiveAt = t],
                      SessionExpirationMinutes, t)

\* CacheActiveSession: the TTL is what is left of lastActiveAt + expiration
CacheActiveSession(cch, session, t, setFault) ==
    LET expiration == (session.lastActiveAt + SessionExpirationMinutes) - t
    IN  IF expiration <= 0 THEN cch
        ELSE IF setFault = "err" THEN cch
        ELSE RedisSet(cch, CacheActiveSessionKey(session), session, expiration, t)

----------------------------------------------------------------------------
(* The authoritative session sources *)

\* repository.GetByID: FindOne by session_id; (session, err)
GetByID(st, sessionID, fault) ==
    IF fault = "err" THEN [session |-> NilSession, err |-> "database query error"]
    ELSE IF sessionID \notin DOMAIN st
         THEN [session |-> NilSession, err |-> "session not found"]
    ELSE [session |-> st[sessionID], err |-> ""]

\* UpdateActivity that also pushes the expiry of the session back
UpdateActivityExtendingExpiry(st, sessionID, t, fault) ==
    IF fault = "err" THEN st
    ELSE [s \in DOMAIN st |->
            IF s = sessionID /\ st[s].isActive
            THEN [st[s] EXCEPT !.lastActiveAt = t, !.expiresAt = t + SessionLifetime]
            ELSE st[s]]

\* repository.UpdateActivity: UpdateOne {session_id, is_active: true} $set last_active_at
UpdateActivity(st, sessionID, t, fault) ==
    IF fault = "err" THEN st
    ELSE [s \in DOMAIN st |->
            IF s = sessionID /\ st[s].isActive
            THEN [st[s] EXCEPT !.lastActiveAt = t] ELSE st[s]]

\* AuthClient.GetSessionById: GET {baseURL}/session/{id}; (session, err).
\* fault "err" is a transport error, a status other than 200 and 404, or a body
\* that does not decode; fault "null" is a 200 whose body holds no session.
GetSessionById(st, sessionID, fault) ==
    IF fault = "err" THEN [session |-> NilSession, err |-> "failed to call auth service"]
    ELSE IF sessionID \notin DOMAIN st
         THEN [session |-> NilSession, err |-> "session not found"]
    ELSE IF fault = "null" THEN [session |-> NilSession, err |-> ""]
    ELSE [session |-> st[sessionID], err |-> ""]

----------------------------------------------------------------------------
(* validateSession *)

\* the validity check without its logout test
SessionRejectedIgnoringLogout(session, t) ==
    \/ ~session.isActive
    \/ t > session.expiresAt

\* the validity check on the authoritative record: time.Now().After(ExpiresAt)
SessionRejected(session, t) ==
    \/ ~session.isActive
    \/ session.logoutAt # NilTime
    \/ t > session.expiresAt

\* the result of validateSession and what it did
Resolved(valid, err, cch, st, cacheGet, lookups, updates, answer, panicked) ==
    [valid |-> valid, err |-> err, cache |-> cch, store |-> st,
     cacheGet |-> cacheGet, lookups |-> lookups, updates |-> updates,
     answer |-> answer, panicked |-> panicked]

\* what the first cache read gave: "hit", "miss" or "error"
CacheGetOutcome(got) ==
    IF got.err # "" THEN "error" ELSE IF got.session = NilSession THEN "miss" ELSE "hit"

\* what the authoritative lookup gave
AnswerKind(ans) ==
    IF ans.err = "session not found" THEN "notfound"
    ELSE IF ans.err # "" THEN "error"
    ELSE IF ans.session = NilSession THEN "null" ELSE "found"

\* AuthMiddleware.validateSession of the remote variant (AuthClient)
validateSessionRemote(cch, st, sessionID, userID, t, f) ==
    LET key == redisKey(userID, sessionID)
        got == GetActiveSession(cch, key, f.get)
        ans == GetSessionById(st, sessionID, f.lookup)
    IN  IF got.err = "" /\ got.session # NilSession
        THEN Resolved(TRUE, "", UpdateSessionActivity(cch, key, t, f.get2, f.set), st,
                      "hit", 0, 0, "none", FALSE)
        ELSE IF ans.err # ""
        THEN Resolved(FALSE, ans.err, cch, st, CacheGetOutcome(got), 1, 0,
                      AnswerKind(ans), FALSE)
        ELSE IF ans.session = NilSession
        THEN \* authSession.IsActive on a nil pointer: the goroutine panics
             Resolved(FALSE, "", cch, st, CacheGetOutcome(got), 1, 0, "null", TRUE)
        ELSE IF SessionRejected(ans.session, t)
        THEN Resolved(FALSE, "", cch, st, CacheGetOutcome(got), 1, 0, "found", FALSE)
        ELSE Resolved(TRUE, "", CacheActiveSession(cch, ans.session, t, f.set), st,
                      CacheGetOutcome(got), 1, 0, "found", FALSE)

\* AuthMiddleware.validateSession of the local variant (sessionRepo)
validateSessionLocal(cch, st, sessionID, userID, t, f) ==
    LET key == redisKey(userID, sessionID)
        got == GetActiveSession(cch, key, f.get)
        ans == GetByID(st, sessionID, f.lookup)
    IN  IF got.err = "" /\ got.session # NilSession
        THEN Resolved(TRUE, "", UpdateSessionActivity(cch, key, t, f.get2, f.set),
                      UpdateActivity(st, sessionID, t, f.update),
                      "hit", 0, 1, "none", FALSE)
        ELSE IF ans.err # ""
        THEN Resolved(FALSE, ans.err, cch, st, CacheGetOutcome(got), 1, 0,
                      AnswerKind(ans), FALSE)
        ELSE IF SessionRejected(ans.session, t)
        THEN Resolved(FALSE, "", cch, st, CacheGetOutcome(got), 1, 0, "found", FALSE)
        ELSE Resolved(TRUE, "",
                      CacheActiveSession(cch, [ans.session EXCEPT !.lastActiveAt = t],
                                         t, f.set),
                      UpdateActivity(st, sessionID, t, f.update),
                      CacheGetOutcome(got), 1, 1, "found", FALSE)

\* validateSession asking the session source before it trusts a cache hit
validateSessionLookupOnHit(v, cch, st, sessionID, userID, t, f) ==
    LET r == IF v = "remote"
             THEN validateSessionRemote(cch, st, sessionID, userID, t, f)
             ELSE validateSessionLocal(cch, st, sessionID, userID, t, f)
    IN  IF r.cacheGet = "hit" THEN [r EXCEPT !.lookups = 1] ELSE r

\* validateSession returning the error of a failed cache read
validateSessionCacheErrorFatal(v, cch, st, sessionID, userID, t, f) ==
    IF GetActiveSession(cch, redisKey(userID, sessionID), f.get).err # ""
    THEN Resolved(FALSE, "redis get error", cch, st, "error", 0, 0, "none", FALSE)
    ELSE IF v = "remote"
    THEN validateSessionRemote(cch, st, sessionID, userID, t, f)
    ELSE validateSessionLocal(cch, st, sessionID, userID, t, f)

\* validateSession answering (false, nil) when the lookup fails
validateSessionSwallowsLookupError(v, cch, st, sessionID, userID, t, f) ==
    LET r == IF v = "remote"
             THEN validateSessionRemote(cch, st, sessionID, userID, t, f)
             ELSE validateSessionLocal(cch, st, sessionID, userID, t, f)
    IN  IF r.err # "" THEN [r EXCEPT !.err = ""] ELSE r

validateSession(v, cch, st, sessionID, userID, t, f) ==
    IF v = "remote" THEN validateSessionRemote(cch, st, sessionID, userID, t, f)
    ELSE validateSessionLocal(cch, st, sessionID, userID, t, f)

----------------------------------------------------------------------------
(* Bearer tokens *)

\* a token string, by what jwt.ParseWithClaims finds in it
Token(form, alg, sigValid, expired, tokenType, userID, sessionID, role) ==
    [form |-> form, alg |-> alg, sigValid |-> sigValid, expired |-> expired,
     tokenType |-> tokenType, userId |-> userID, sessionId |-> sessionID,
     email |-> <<userID, "@handyhub">>, role |-> role]

\* the empty string
EmptyToken == Token("empty", "", FALSE, FALSE, "", "", "", "")

\* the Authorization header: scheme "" is a request without the header
Header(scheme, rest) == [scheme |-> scheme, rest |-> rest]

\* extractToken taking the credential of any scheme
extractTokenAnyScheme(authHeader) ==
    IF authHeader.scheme = "" THEN EmptyToken ELSE authHeader.rest

\* extractToken: "" unless the header starts with "Bearer "; then the rest of it
extractToken(authHeader) ==
    IF authHeader.scheme = "" \/ authHeader.scheme # "Bearer " THEN EmptyToken
    ELSE authHeader.rest

\* jwt.ParseWithClaims with the middleware's key function: the segments are parsed,
\* the key function refuses a method that is not HMAC, the signature is verified,
\* and only then are the registered claims (exp) validated
ParseWithClaims(tok) ==
    IF tok.form # "jwt" THEN "token is malformed"
    ELSE IF tok.alg # "HS256" THEN "token is unverifiable"
    ELSE IF ~tok.sigValid THEN "token signature is invalid"
    ELSE IF tok.expired THEN "token is expired"
    ELSE ""

\* validateJWTToken of the remote variant: the error, "" when the claims are returned
validateJWTTokenRemote(tok) ==
    IF ParseWithClaims(tok) # "" THEN "invalid token"
    ELSE IF tok.tokenType # "access" THEN "invalid token claims"
    ELSE ""

\* validateJWTToken of the local variant
validateJWTTokenLocal(tok) ==
    IF ParseWithClaims(tok) = "token is expired" THEN "token expired"
    ELSE IF ParseWithClaims(tok) # "" THEN "invalid token"
    ELSE IF tok.tokenType # "access" THEN "invalid token type"
    ELSE ""

\* validateJWTToken without its check of the token type
validateJWTTokenAnyType(v, tok) ==
    IF ParseWithClaims(tok) # "" THEN "invalid token" ELSE ""

validateJWTToken(v, tok) ==
    IF v = "remote" THEN validateJWTTokenRemote(tok) ELSE validateJWTTokenLocal(tok)

----------------------------------------------------------------------------
(* The request and its gin context *)

\* c.Set(key, value)
Set(ctx, key, value) ==
    [k \in DOMAIN ctx \cup {key} |-> IF k = key THEN value ELSE ctx[k]]

\* c.JSON(status, gin.H{"error": error})
JSON(r, status, error) ==
    [r EXCEPT !.responses = Append(@, [status |-> status, error |-> error])]

\* c.Abort(): no later handler of the chain runs
Abort(r) == [r EXCEPT !.aborted = TRUE, !.pc = "done"]

\* the handler chain has run a stage of the pipeline
Stage(r, name) == [r EXCEPT !.stages = Append(@, name)]

\* no request
NoRequest ==
    [pc |-> "idle", ctx |-> << >>, responses |-> << >>, aborted |-> FALSE,
     handlerRan |-> FALSE, stages |-> << >>,
     header |-> Header("", EmptyToken), token |-> EmptyToken,
     verifyErr |-> "", at |-> 0, resolved |-> FALSE, valid |-> FALSE, err |-> "",
     cacheGet |-> "none", answer |-> "none", lookups |-> 0, updates |-> 0,
     updateErr |-> FALSE, cacheErr |-> FALSE, fillOpen |-> FALSE,
     panicked |-> FALSE, publishCalls |-> 0, published |-> << >>,
     pending |-> << >>]

\* setRouteName(name): the first handler of every admin route
setRouteNameHandler(name) ==
    [NoRequest EXCEPT !.ctx = Set(<< >>, "route_name", name), !.pc = "auth"]

\* getRouteAction
getRouteAction(ctx) ==
    IF "route_name" \in DOMAIN ctx THEN ctx["route_name"] ELSE "unknown_action"

\* setUserContext storing the user id and the session id under each other's key
setUserContextSwapped(ctx, claims) ==
    Set(Set(Set(Set(ctx, "user_id", claims.sessionId), "session_id", claims.userId),
            "user_email", claims.email), "user_role", claims.role)

\* setUserContext, and the four c.Set of the local variant's RequireAuth
setUserContext(ctx, claims) ==
    Set(Set(Set(Set(ctx, "user_id", claims.userId), "session_id", claims.sessionId),
            "user_email", claims.email), "user_role", claims.role)

\* models.ActivityMessage as PublishActivityWithDetails builds it
ActivityMessage(userID, sessionID, action) ==
    [userId |-> userID, sessionId |-> sessionID,
     serviceName |-> "admin.middleware.auth", action |-> action]

\* publishActivity left out of RequireAuth
publishActivityLeftOut(r, userID, sessionID, action, fault) == r

\* publishActivity failing the request when the publish fails
publishActivityFatal(r, userID, sessionID, action, fault) ==
    IF fault = "err"
    THEN Abort(JSON([r EXCEPT !.publishCalls = @ + 1, !.stages = Append(@, "activity")],
                    500, "Failed to publish activity message"))
    ELSE [r EXCEPT !.publishCalls = @ + 1,
                   !.published = Append(@, ActivityMessage(userID, sessionID, action)),
                   !.stages = Append(@, "activity")]

\* publishActivity publishing a second time when the first publish fails
publishActivityRetrying(r, userID, sessionID, action, fault) ==
    [r EXCEPT !.publishCalls = IF fault = "err" THEN @ + 2 ELSE @ + 1,
              !.published = Append(@, ActivityMessage(userID, sessionID, action)),
              !.stages = Append(@, "activity")]

\* publishActivity: one channel.Publish; its error is logged and dropped
publishActivity(r, userID, sessionID, action, fault) ==
    [r EXCEPT !.publishCalls = @ + 1,
              !.published = IF fault = "err" THEN @
                            ELSE Append(@, ActivityMessage(userID, sessionID, action)),
              !.stages = Append(@, "activity")]

----------------------------------------------------------------------------
(* The middlewares *)

\* RequireAuth publishing the activity as soon as validateSession has returned,
\* before it looks at what it returned
ResolutionThenPublish(r, res, t, f) ==
    [r EXCEPT !.resolved = TRUE, !.at = t, !.valid = res.valid, !.err = res.err,
              !.cacheGet = res.cacheGet, !.answer = res.answer,
              !.lookups = res.lookups, !.updates = res.updates,
              !.updateErr = (res.updates > 0 /\ f.update = "err"),
              !.cacheErr = (\/ f.get = "err"
                            \/ res.cacheGet = "hit" /\ (f.get2 = "err" \/ f.set = "err")
                            \/ res.valid /\ f.set = "err"),
              !.panicked = res.panicked,
              !.publishCalls = @ + 1,
              !.published = Append(@, ActivityMessage(r.token.userId, r.token.sessionId,
                                                      getRouteAction(r.ctx))),
              !.stages = Append(@, "session")]

\* what RequireAuth keeps of validateSession's run
Resolution(r, res, t, f) ==
    [r EXCEPT !.resolved = TRUE, !.at = t, !.valid = res.valid, !.err = res.err,
              !.cacheGet = res.cacheGet, !.answer = res.answer,
              !.lookups = res.lookups, !.updates = res.updates,
              !.updateErr = (res.updates > 0 /\ f.update = "err"),
              !.cacheErr = (\/ f.get = "err"
                            \/ res.cacheGet = "hit" /\ (f.get2 = "err" \/ f.set = "err")
                            \/ res.valid /\ f.set = "err"),
              !.panicked = res.panicked,
              !.stages = Append(@, "session")]

\* RequireAuth: the request after the middleware, and the cache and store it leaves
RequireAuthHandler(v, r, cch, st, t, authHeader, f) ==
    LET token == extractToken(authHeader)
        verr  == validateJWTToken(v, token)
        res   == validateSession(v, cch, st, token.sessionId, token.userId, t, f)
        r0    == [r EXCEPT !.header = authHeader]
        r1    == [Stage(r0, "token") EXCEPT !.token = token, !.verifyErr = verr]
        r2    == Resolution(r1, res, t, f)
        r3    == IF v = "remote"
                 THEN publishActivity(r2, token.userId, token.sessionId,
                                      getRouteAction(r.ctx), f.publish)
                 ELSE r2
    IN  IF token = EmptyToken
        THEN [req |-> Abort(JSON(r0, 401, "Authorization token is required")),
              cache |-> cch, store |-> st]
        ELSE IF verr # ""
        THEN [req |-> Abort(JSON(r1, 401, "Invalid or expired token")),
              cache |-> cch, store |-> st]
        ELSE IF res.panicked
        THEN \* the nil dereference unwinds the chain: no handler of it writes a response
             [req |-> [r2 EXCEPT !.pc = "done"], cache |-> res.cache, store |-> res.store]
        ELSE IF res.err # ""
        THEN [req |-> Abort(JSON(r2, 500, "Session validation error")),
              cache |-> res.cache, store |-> res.store]
        ELSE IF ~res.valid
        THEN [req |-> Abort(JSON(r2, 401, "Session expired - please login again")),
              cache |-> res.cache, store |-> res.store]
        ELSE [req |-> [Stage(r3, "context") EXCEPT !.ctx = setUserContext(@, token),
                                                   !.pc = "authz"],
              cache |-> res.cache, store |-> res.store]

\* RequireAdminRights writing its 403 without c.Abort() and return
RequireAdminRightsNoAbort(r) ==
    LET r1 == Stage(r, "authz")
    IN  IF "user_role" \notin DOMAIN r.ctx
        THEN Abort(JSON(r1, 401, "Authentication required"))
        ELSE IF r.ctx["user_role"] # "admin"
        THEN [JSON(r1, 403, "Access forbidden - admin privileges required")
                EXCEPT !.pc = "handler"]
        ELSE [r1 EXCEPT !.pc = "handler"]

\* RequireAdminRights letting every role through
RequireAdminRightsAnyRole(r) ==
    LET r1 == Stage(r, "authz")
    IN  IF "user_role" \notin DOMAIN r.ctx
        THEN Abort(JSON(r1, 401, "Authentication required"))
        ELSE [r1 EXCEPT !.pc = "handler"]

\* RequireAdminRights; the role RequireAuth sets is always a string
RequireAdminRightsHandler(r) ==
    LET r1 == Stage(r, "authz")
    IN  IF "user_role" \notin DOMAIN r.ctx
        THEN Abort(JSON(r1, 401, "Authentication required"))
        ELSE IF r.ctx["user_role"] # "admin"
        THEN Abort(JSON(r1, 403, "Access forbidden - admin privileges required"))
        ELSE [r1 EXCEPT !.pc = "handler"]

\* the route's handler (GetAllUsers, GetUserStats, ActivateUser, ...): it answers
\* 200, or an error status of its own
ProtectedHandler(r, status) ==
    [JSON(Stage(r, "handler"), status, "") EXCEPT !.handlerRan = TRUE, !.pc = "done"]

----------------------------------------------------------------------------
(* The inputs *)

\* names setupAdminRoutes gives the admin routes: a read and a write route
Routes == {"getUsersList", "activateUser"}

\* well-formed, signed, unexpired access tokens
GoodTokens ==
    {Token("jwt", "HS256", TRUE, FALSE, "access", u, s, role) :
        u \in UserIds, s \in SessionIds, role \in Roles}

\* tokens validateJWTToken has a reason to refuse: a forged signature, an
\* expired token, a refresh token, a forged refresh token, a token signed with
\* a method that is not HMAC, a string that is no JWT
BadTokens ==
    {Token("jwt", "HS256", FALSE, FALSE, "access", "a", "a", "admin"),
     Token("jwt", "HS256", TRUE, TRUE, "access", "a", "a", "admin"),
     Token("jwt", "HS256", TRUE, FALSE, "refresh", "a", "a", "admin"),
     Token("jwt", "HS256", FALSE, FALSE, "refresh", "a", "a", "admin"),
     Token("jwt", "RS256", TRUE, FALSE, "access", "a", "a", "admin"),
     Token("garbage", "", FALSE, FALSE, "", "", "", "")}

Tokens == GoodTokens \cup BadTokens

Headers ==
    {Header("", EmptyToken), Header("Bearer ", EmptyToken)}
    \cup {Header("Basic ", Token("jwt", "HS256", TRUE, FALSE, "access", "a", "a", "admin"))}
    \cup {Header("Bearer ", tok) : tok \in Tokens}

\* what the calls of one request to redis, to the session source and to the
\* message channel run into: nothing, or one failure; a lookup that runs into
\* "hang" gets no answer from the session source
NoFault ==
    [get |-> "ok", get2 |-> "ok", set |-> "ok", lookup |-> "ok", update |-> "ok",
     publish |-> "ok"]

Faults ==
    {NoFault,
     [NoFault EXCEPT !.get = "err"],
     [NoFault EXCEPT !.get2 = "err"],
     [NoFault EXCEPT !.set = "err"],
     [NoFault EXCEPT !.get = "err", !.get2 = "err", !.set = "err"],
     [NoFault EXCEPT !.lookup = "err"],
     [NoFault EXCEPT !.lookup = "null"],
     [NoFault EXCEPT !.lookup = "hang"],
     [NoFault EXCEPT !.update = "err"],
     [NoFault EXCEPT !.publish = "err"]}

\* the statuses a route's handler answers with
HandlerStatuses == {200, 500}

----------------------------------------------------------------------------
(* History, for the properties *)

\* the history after a run of validateSession for (userID, sessionID) at time t:
\* fill is the latest fallback that found the session valid, with the cache in
\* order since
Remember(h, r, userID, sessionID, t) ==
    [h EXCEPT !.fill =
        IF r.cacheErr THEN << >>
        ELSE IF r.lookups > 0 /\ r.valid
        THEN <<[userId |-> userID, sessionId |-> sessionID, at |-> t]>>
        ELSE @]

\* a fill older than one expiration is history no property reads
Forget(h, t) ==
    [h EXCEPT !.fill =
        IF @ # << >> /\ t >= @[1].at + SessionExpirationMinutes THEN << >> ELSE @]

\* a fallback filled the cache for (userID, sessionID) less than one expiration ago
FillOpen(h, userID, sessionID, t) ==
    /\ h.fill # << >>
    /\ h.fill[1].userId = userID
    /\ h.fill[1].sessionId = sessionID
    /\ t < h.fill[1].at + SessionExpirationMinutes

----------------------------------------------------------------------------
(* The state machine *)

Init ==
    /\ variant \in {"remote", "local"}
    /\ now = 0
    /\ store \in {<< >>} \cup
            {[s \in SessionIds |-> Session(s, u, TRUE, SessionLifetime, NilTime, 0)] :
                u \in UserIds}
    /\ cache = << >>
    /\ req = NoRequest
    /\ hist = [fill |-> << >>]
    /\ httpTimeout \in IF variant = "remote" THEN {0, AuthServiceTimeout} ELSE {0}
    /\ procs = << >>
    /\ rabbit = << >>
    /\ search = << >>

\* a request for an admin route arrives: the chain's first handler names the route
setRouteName ==
    /\ req.pc = "idle"
    /\ \E name \in Routes : req' = setRouteNameHandler(name)
    /\ UNCHANGED <<variant, now, store, cache, hist, httpTimeout, procs, rabbit, search>>

\* validateSession calls the session source and the source does not answer
LookupHangs(v, cch, st, token, t, f) ==
    /\ f.lookup = "hang"
    /\ validateSession(v, cch, st, token.sessionId, token.userId, t, f).lookups > 0

\* RequireAuth has returned: what it leaves of the request, the cache and the store
Returned(out) ==
    /\ req' = [out.req EXCEPT !.pending = << >>,
                              !.fillOpen =
                                 /\ out.req.resolved
                                 /\ ~out.req.cacheErr
                                 /\ FillOpen(hist, out.req.token.userId,
                                             out.req.token.sessionId, now)]
    /\ cache' = out.cache
    /\ store' = out.store
    /\ hist' = IF out.req.resolved
               THEN Remember(hist, out.req, out.req.token.userId,
                             out.req.token.sessionId, now)
               ELSE hist

\* the request's header is drawn when RequireAuth reads it; the calls to redis,
\* the session source and the channel are made only for a token that verifies.
\* RequireAuth runs to its end unless its lookup gets no answer: then the
\* request waits in validateSession, inside GetSessionById or GetByID
RequireAuth ==
    /\ req.pc = "auth"
    /\ \E authHeader \in Headers :
         \E f \in IF validateJWTToken(variant, extractToken(authHeader)) = ""
                  THEN Faults ELSE {NoFault} :
           IF LookupHangs(variant, cache, store, extractToken(authHeader), now, f)
           THEN /\ req' = [req EXCEPT !.pc = "lookup",
                                      !.header = authHeader,
                                      !.token = extractToken(authHeader),
                                      !.pending = <<f>>]
                /\ UNCHANGED <<cache, store, hist>>
           ELSE Returned(RequireAuthHandler(variant, req, cache, store, now,
                                            authHeader, f))
    /\ UNCHANGED <<variant, now, httpTimeout, procs, rabbit, search>>

\* httpClient.Timeout runs out: httpClient.Do returns an error and
\* GetSessionById "failed to call auth service".  The request context
\* (c.Request.Context()) carries no deadline, so nothing else ends the call: not
\* when the timeout is 0, and not the FindOne of the local variant
LookupDeadline ==
    /\ req.pc = "lookup"
    /\ variant = "remote"
    /\ httpTimeout > 0
    /\ Returned(RequireAuthHandler(variant, [req EXCEPT !.pc = "auth"], cache, store,
                                   now, Header("Bearer ", req.token),
                                   [req.pending[1] EXCEPT !.lookup = "err"]))
    /\ UNCHANGED <<variant, now, httpTimeout, procs, rabbit, search>>

RequireAdminRights ==
    /\ req.pc = "authz"
    /\ req' = RequireAdminRightsHandler(req)
    /\ UNCHANGED <<variant, now, store, cache, hist, httpTimeout, procs, rabbit, search>>

Handler ==
    /\ req.pc = "handler"
    /\ \E status \in HandlerStatuses : req' = ProtectedHandler(req, status)
    /\ UNCHANGED <<variant, now, store, cache, hist, httpTimeout, procs, rabbit, search>>

\* the response is written and the gin context is recycled
Respond ==
    /\ req.pc = "done"
    /\ req' = NoRequest
    /\ UNCHANGED <<variant, now, store, cache, hist, httpTimeout, procs, rabbit, search>>

\* time passes between two requests; redis drops what has expired
Tick ==
    /\ req.pc = "idle"
    /\ now < MaxTime
    /\ now' = now + 1
    /\ cache' = RedisExpire(cache, now + 1)
    /\ hist' = Forget(hist, now + 1)
    /\ UNCHANGED <<variant, store, req, httpTimeout, procs, rabbit, search>>

\* the identity provider logs a session out
Logout(s) ==
    /\ req.pc = "idle"
    /\ s \in DOMAIN store
    /\ store[s].logoutAt = NilTime
    /\ store' = [store EXCEPT ![s].logoutAt = <<now>>]
    /\ UNCHANGED <<variant, now, cache, req, hist, httpTimeout, procs, rabbit, search>>

\* the identity provider deactivates a session
Deactivate(s) ==
    /\ req.pc = "idle"
    /\ s \in DOMAIN store
    /\ store[s].isActive
    /\ store' = [store EXCEPT ![s].isActive = FALSE]
    /\ UNCHANGED <<variant, now, cache, req, hist, httpTimeout, procs, rabbit, search>>

Next ==
    \/ setRouteName
    \/ RequireAuth
    \/ LookupDeadline
    \/ RequireAdminRights
    \/ Handler
    \/ Respond
    \/ Tick
    \/ \E s \in SessionIds : Logout(s)
    \/ \E s \in SessionIds : Deactivate(s)

Spec == Init /\ [][Next]_vars

----------------------------------------------------------------------------
(* RequireAdminRights on its own: the middleware as a function of the context
   it is handed, also a context no RequireAuth has written to *)

\* the contexts RequireAdminRights may be handed: with the identity RequireAuth
\* attaches, or without it
GateContexts ==
    {Set(<< >>, "route_name", name) : name \in Routes}
    \cup {setUserContext(Set(<< >>, "route_name", name), tok) :
            name \in Routes, tok \in GoodTokens}

GateInit ==
    /\ variant \in {"remote", "local"}
    /\ now \in 0..MaxTime
    /\ store \in {<< >>} \cup
            {[s \in SessionIds |-> Session(s, u, TRUE, SessionLifetime, NilTime, 0)] :
                u \in UserIds}
    /\ cache = << >>
    /\ req \in {[NoRequest EXCEPT !.ctx = ctx, !.pc = "authz"] : ctx \in GateContexts}
    /\ hist = [fill |-> << >>]
    /\ httpTimeout \in IF variant = "remote" THEN {0, AuthServiceTimeout} ELSE {0}
    /\ procs = << >>
    /\ rabbit = << >>
    /\ search = << >>

GateNext ==
    \/ RequireAdminRights
    \/ Handler
    \/ Respond

GateSpec == GateInit /\ [][GateNext]_vars

----------------------------------------------------------------------------
(* The status handlers of the user routes: ActivateUser, DeactivateUser,
   SuspendUser, all three updateUserStatusHandler *)

\* the status routes and the status each handler passes on
StatusRoutes == {"activateUser", "deactivateUser", "suspendUser"}

StatusOfRoute(name) ==
    IF name = "activateUser" THEN "active"
    ELSE IF name = "deactivateUser" THEN "inactive"
    ELSE "suspended"

\* what the service's ActivateUser / DeactivateUser / SuspendUser returns
ServiceErrors == {"", "user not found", "invalid parameters", "database update error"}

\* sendErrorResponse: one c.JSON
sendErrorResponse(r, statusCode, error) == JSON(r, statusCode, error)

\* executeStatusUpdate: the service's error; ErrInvalidUserStatus for a status
\* that is none of the three
executeStatusUpdate(status, serviceErr) ==
    IF status \in {"active", "inactive", "suspended"} THEN serviceErr
    ELSE "invalid user status"

\* handleStatusUpdateError
handleStatusUpdateError(r, err) ==
    IF err = "user not found" THEN sendErrorResponse(r, 404, "User not found")
    ELSE IF err = "invalid parameters"
    THEN sendErrorResponse(sendErrorResponse(r, 400, "Invalid user ID"),
                           400, "Invalid user ID")
    ELSE sendErrorResponse(r, 500, "Failed to update user status")

\* updateUserStatusHandler, the last handler of its chain
updateUserStatusHandler(r, userID, status, serviceErr) ==
    LET r1  == [Stage(r, "handler") EXCEPT !.handlerRan = TRUE, !.pc = "done"]
        err == executeStatusUpdate(status, serviceErr)
    IN  IF userID = "" THEN sendErrorResponse(r1, 400, "User ID is required")
        ELSE IF err # "" THEN handleStatusUpdateError(r1, err)
        ELSE JSON(r1, 200, "")

\* a request of an admin that has reached the handler of a status route
StatusInit ==
    /\ variant \in {"remote", "local"}
    /\ now \in 0..MaxTime
    /\ store \in {<< >>} \cup
            {[s \in SessionIds |-> Session(s, u, TRUE, SessionLifetime, NilTime, 0)] :
                u \in UserIds}
    /\ cache = << >>
    /\ req \in {[NoRequest EXCEPT
                    !.ctx = setUserContext(Set(<< >>, "route_name", name), tok),
                    !.pc = "handler"] :
                 name \in StatusRoutes,
                 tok \in {t \in GoodTokens : t.role = "admin"}}
    /\ hist = [fill |-> << >>]
    /\ httpTimeout \in IF variant = "remote" THEN {0, AuthServiceTimeout} ELSE {0}
    /\ procs = << >>
    /\ rabbit = << >>
    /\ search = << >>

\* c.Param("id") and the outcome of the service call are drawn here
UpdateUserStatus ==
    /\ req.pc = "handler"
    /\ \E userID \in {"", "u1"}, serviceErr \in ServiceErrors :
         req' = updateUserStatusHandler(req, userID,
                                        StatusOfRoute(getRouteAction(req.ctx)),
                                        serviceErr)
    /\ UNCHANGED <<variant, now, store, cache, hist, httpTimeout, procs, rabbit, search>>

StatusNext ==
    \/ UpdateUserStatus
    \/ Respond

StatusSpec == StatusInit /\ [][StatusNext]_vars

----------------------------------------------------------------------------
(* The RabbitMQ client and its Close *)

\* a *amqp.Connection or *amqp.Channel field: nil, open or closed
Handles == {"nil", "open"}

\* the RabbitMQ struct, and what its Close has returned ("none" before the call)
RabbitMQ(conn, channel) == [conn |-> conn, channel |-> channel, returned |-> "none"]

\* RabbitMQ.Close: the channel, if there is one, is closed and Close returns
\* what closing it gave; the connection is reached only without a channel
Close(r, channelFault, connFault) ==
    IF r.channel # "nil"
    THEN IF channelFault = "err" THEN [r EXCEPT !.returned = "err"]
         ELSE [r EXCEPT !.channel = "closed", !.returned = "nil"]
    ELSE IF r.conn # "nil"
    THEN IF connFault = "err" THEN [r EXCEPT !.returned = "err"]
         ELSE [r EXCEPT !.conn = "closed", !.returned = "nil"]
    ELSE [r EXCEPT !.returned = "nil"]

\* the service is about to shut down with some RabbitMQ client
CloseInit ==
    /\ variant \in {"remote", "local"}
    /\ now \in 0..MaxTime
    /\ store \in {<< >>} \cup
            {[s \in SessionIds |-> Session(s, u, TRUE, SessionLifetime, NilTime, 0)] :
                u \in UserIds}
    /\ cache = << >>
    /\ req = NoRequest
    /\ hist = [fill |-> << >>]
    /\ httpTimeout \in IF variant = "remote" THEN {0, AuthServiceTimeout} ELSE {0}
    /\ procs = << >>
    /\ rabbit \in {RabbitMQ(conn, channel) : conn \in Handles, channel \in Handles}
    /\ search = << >>

CloseRabbitMQ ==
    /\ rabbit.returned = "none"
    /\ \E channelFault \in {"ok", "err"}, connFault \in {"ok", "err"} :
         rabbit' = Close(rabbit, channelFault, connFault)
    /\ UNCHANGED <<variant, now, store, cache, req, hist, httpTimeout, procs, search>>

CloseNext == CloseRabbitMQ

CloseSpec == CloseInit /\ [][CloseNext]_vars

----------------------------------------------------------------------------
(* The user service: GetAllUsers and the normalisation of its request *)

\* the limit above which GetAllUsers replaces the limit of a request
LimitCap == 100

\* the search section of the configuration file: its two keys
SearchFile(minQueryLimit, maxQueryLimit) ==
    [minQueryLimit |-> minQueryLimit, maxQueryLimit |-> maxQueryLimit]

\* SearchConfig as mapstructure decodes it: both fields carry the tag
\* "min-query-limit", so both are read from that key
SearchConfig(file) ==
    [MinQueryLimit |-> file.minQueryLimit, MaxQueryLimit |-> file.minQueryLimit]

\* validateRequest, and the first lines of GetAllUsers: limit and page
validateRequest(cfg, r) ==
    LET limit1 == IF r.limit <= 0 THEN cfg.MinQueryLimit ELSE r.limit
        limit2 == IF limit1 > LimitCap THEN cfg.MaxQueryLimit ELSE limit1
        page   == IF r.page <= 0 THEN 1 ELSE r.page
    IN  [page |-> page, limit |-> limit2]

\* int(math.Ceil(float64(totalCount) / float64(limit))) for a limit above 0
TotalPages(totalCount, limit) == (totalCount + limit - 1) \div limit

\* GetAllUsers: the request the repository gets, and the total pages of the
\* response; dividedByZero when the limit of the division is 0
GetAllUsersCall(s, totalCount) ==
    LET passed == validateRequest(SearchConfig(s.file), s.request)
    IN  [s EXCEPT !.pc = "done",
                  !.passed = <<passed>>,
                  !.totalCount = totalCount,
                  !.dividedByZero = (passed.limit = 0),
                  !.totalPages = IF passed.limit > 0
                                 THEN TotalPages(totalCount, passed.limit) ELSE 0]

\* the values the two keys of the configuration file are set to
QueryLimits == {1, 10, 50, LimitCap}

\* the limits and pages of the requests
Limits == {-1, 0, 1, 10, LimitCap - 1, LimitCap, LimitCap + 1, LimitCap * 5}
Pages == -1..MaxPage

SearchInit ==
    /\ variant = "remote"
    /\ now = 0
    /\ store = << >>
    /\ cache = << >>
    /\ req = NoRequest
    /\ hist = [fill |-> << >>]
    /\ httpTimeout = 0
    /\ procs = << >>
    /\ rabbit = << >>
    /\ search \in {[pc |-> "request", file |-> SearchFile(lo, hi),
                     request |-> [page |-> page, limit |-> limit],
                     passed |-> << >>, totalCount |-> 0, dividedByZero |-> FALSE,
                     totalPages |-> 0] :
                    lo \in QueryLimits, hi \in QueryLimits, page \in Pages,
                    limit \in Limits}

\* the repository's total count is drawn here
GetAllUsers ==
    /\ search.pc = "request"
    /\ \E totalCount \in 0..MaxTotalCount : search' = GetAllUsersCall(search, totalCount)
    /\ UNCHANGED <<variant, now, store, cache, req, hist, httpTimeout, procs, rabbit>>

SearchNext == GetAllUsers

SearchSpec == SearchInit /\ [][SearchNext]_vars

----------------------------------------------------------------------------
(* Concurrent requests: validateSession one cache or source access at a time *)

\* the goroutines that resolve the same session key at the same time
Callers == {1, 2}

\* the fields of a session record that decide whether it is usable
Correctness(session) ==
    [sessionId |-> session.sessionId, userId |-> session.userId,
     isActive |-> session.isActive, expiresAt |-> session.expiresAt,
     logoutAt |-> session.logoutAt]

\* a validateSession call that has not started: its arguments and its locals
Call(userID, sessionID) ==
    [pc |-> "start", userID |-> userID, sessionID |-> sessionID,
     session |-> NilSession, snapshot |-> NilSession, readEntry |-> << >>,
     refreshed |-> FALSE, raced |-> FALSE, lookup |-> "none", result |-> "none"]

\* a call returns
Return(call, result) == [call EXCEPT !.pc = "done", !.result = result]

\* a cache hit returning false when the refresh of the entry wrote nothing
ReturnAfterHitIfRefreshed(refreshed) == IF refreshed THEN "true" ELSE "false"

\* what validateSession returns after a cache hit: the result of
\* UpdateSessionActivity is dropped
ReturnAfterHit(refreshed) == "true"

\* the last snapshot written under each key
Wrote(lastWrite, key, session) ==
    [k \in DOMAIN lastWrite \cup {key} |-> IF k = key THEN session ELSE lastWrite[k]]

\* two requests carrying the same user id and session id are in flight
RaceInit ==
    /\ variant \in {"remote", "local"}
    /\ now = 0
    /\ store \in {<< >>} \cup
            {[s \in SessionIds |-> Session(s, u, TRUE, SessionLifetime, NilTime, 0)] :
                u \in UserIds}
    /\ cache = << >>
    /\ req = NoRequest
    /\ hist = [fill |-> << >>]
    /\ httpTimeout \in IF variant = "remote" THEN {0, AuthServiceTimeout} ELSE {0}
    /\ \E userID \in UserIds, sessionID \in SessionIds :
         procs = [calls |-> [p \in Callers |-> Call(userID, sessionID)],
                  read |-> {}, lastWrite |-> << >>]
    /\ rabbit = << >>
    /\ search = << >>

\* validateSession reads the cache: a hit goes on to the refresh, anything
\* else to the session source
CacheGet(p) ==
    LET call == procs.calls[p]
        key  == redisKey(call.userID, call.sessionID)
    IN  /\ call.pc = "start"
        /\ \E fault \in {"", "err"} :
             LET got == GetActiveSession(cache, key, fault)
             IN  procs' = [procs EXCEPT !.calls[p] =
                    IF got.err = "" /\ got.session # NilSession
                    THEN [call EXCEPT !.pc = "refresh", !.session = got.session]
                    ELSE [call EXCEPT !.pc = "lookup"]]
        /\ UNCHANGED <<variant, now, store, cache, req, hist, httpTimeout, rabbit, search>>

\* where a cache hit continues after UpdateSessionActivity
AfterRefresh(call, refreshed) ==
    IF variant = "local" THEN [call EXCEPT !.pc = "touch", !.refreshed = refreshed]
    ELSE Return([call EXCEPT !.refreshed = refreshed], ReturnAfterHit(refreshed))

\* UpdateSessionActivity reads the entry again and stamps lastActiveAt
RefreshGet(p) ==
    LET call == procs.calls[p]
        key  == redisKey(call.userID, call.sessionID)
    IN  /\ call.pc = "refresh"
        /\ \E fault \in {"", "err"} :
             LET got == GetActiveSession(cache, key, fault)
             IN  procs' = [procs EXCEPT !.calls[p] =
                    IF got.err # "" \/ got.session = NilSession
                    THEN AfterRefresh(call, FALSE)
                    ELSE [call EXCEPT !.pc = "refreshSet",
                                      !.snapshot = [got.session EXCEPT !.lastActiveAt = now],
                                      !.readEntry = <<cache[key]>>]]
        /\ UNCHANGED <<variant, now, store, cache, req, hist, httpTimeout, rabbit, search>>

\* UpdateSessionActivity writes its snapshot back with the full TTL
RefreshSet(p) ==
    LET call == procs.calls[p]
        key  == redisKey(call.userID, call.sessionID)
        raced == key \notin DOMAIN cache \/ cache[key] # call.readEntry[1]
    IN  /\ call.pc = "refreshSet"
        /\ \E fault \in {"", "err"} :
             IF fault = "err"
             THEN /\ cache' = cache
                  /\ procs' = [procs EXCEPT !.calls[p] = AfterRefresh(call, FALSE)]
             ELSE /\ cache' = RedisSet(cache, key, call.snapshot,
                                       SessionExpirationMinutes, now)
                  /\ procs' = [procs EXCEPT
                        !.calls[p] = AfterRefresh([call EXCEPT !.raced = raced], TRUE),
                        !.lastWrite = Wrote(@, key, call.snapshot)]
        /\ UNCHANGED <<variant, now, store, req, hist, httpTimeout, rabbit, search>>

\* the local variant stamps the session at its source after a hit, then returns
Touch(p) ==
    LET call == procs.calls[p]
    IN  /\ call.pc = "touch"
        /\ \E fault \in {"", "err"} :
             store' = UpdateActivity(store, call.sessionID, now, fault)
        /\ procs' = [procs EXCEPT !.calls[p] = Return(call, ReturnAfterHit(call.refreshed))]
        /\ UNCHANGED <<variant, now, cache, req, hist, httpTimeout, rabbit, search>>

\* validateSession asks the session source and checks what it answers
Lookup(p) ==
    LET call == procs.calls[p]
    IN  /\ call.pc = "lookup"
        /\ \E fault \in IF variant = "remote" THEN {"", "err", "null"} ELSE {"", "err"} :
             LET ans == IF variant = "remote"
                        THEN GetSessionById(store, call.sessionID, fault)
                        ELSE GetByID(store, call.sessionID, fault)
                 asked == [call EXCEPT !.lookup = AnswerKind(ans)]
             IN  procs' =
                    IF ans.err # ""
                    THEN [procs EXCEPT !.calls[p] = Return(asked, "error")]
                    ELSE IF ans.session = NilSession
                    THEN [procs EXCEPT !.calls[p] = Return(asked, "panic")]
                    ELSE IF SessionRejected(ans.session, now)
                    THEN [procs EXCEPT !.calls[p] = Return(asked, "false")]
                    ELSE IF variant = "remote"
                    THEN [procs EXCEPT
                            !.calls[p] = [asked EXCEPT !.pc = "fill",
                                                       !.session = ans.session],
                            !.read = @ \cup {Correctness(ans.session)}]
                    ELSE [procs EXCEPT
                            !.calls[p] = [asked EXCEPT !.pc = "store",
                                            !.session = [ans.session EXCEPT
                                                            !.lastActiveAt = now]],
                            !.read = @ \cup {Correctness(ans.session)}]
        /\ UNCHANGED <<variant, now, store, cache, req, hist, httpTimeout, rabbit, search>>

\* the local variant stamps the session at its source after the lookup
StoreUpdate(p) ==
    LET call == procs.calls[p]
    IN  /\ call.pc = "store"
        /\ \E fault \in {"", "err"} :
             store' = UpdateActivity(store, call.sessionID, now, fault)
        /\ procs' = [procs EXCEPT !.calls[p].pc = "fill"]
        /\ UNCHANGED <<variant, now, cache, req, hist, httpTimeout, rabbit, search>>

\* validateSession caches the session it looked up, then returns true
Fill(p) ==
    LET call == procs.calls[p]
    IN  /\ call.pc = "fill"
        /\ \E fault \in {"", "err"} :
             /\ cache' = CacheActiveSession(cache, call.session, now, fault)
             /\ procs' = [procs EXCEPT
                   !.calls[p] = Return(call, "true"),
                   !.lastWrite =
                        IF fault = "err"
                           \/ (call.session.lastActiveAt + SessionExpirationMinutes) - now <= 0
                        THEN @
                        ELSE Wrote(@, CacheActiveSessionKey(call.session), call.session)]
        /\ UNCHANGED <<variant, now, store, req, hist, httpTimeout, rabbit, search>>

RaceNext ==
    \/ \E p \in Callers : CacheGet(p)
    \/ \E p \in Callers : RefreshGet(p)
    \/ \E p \in Callers : RefreshSet(p)
    \/ \E p \in Callers : Touch(p)
    \/ \E p \in Callers : Lookup(p)
    \/ \E p \in Callers : StoreUpdate(p)
    \/ \E p \in Callers : Fill(p)
    \/ Tick
    \/ \E s \in SessionIds : Logout(s)
    \/ \E s \in SessionIds : Deactivate(s)

RaceSpec == RaceInit /\ [][RaceNext]_vars

----------------------------------------------------------------------------
(* What the properties read of a request *)

Done == req.pc = "done"

\* the status of the response, 0 when none was written
Status == IF req.responses = << >> THEN 0 ELSE req.responses[1].status

\* the error text of the response
ErrorText == IF req.responses = << >> THEN "" ELSE req.responses[1].error

IdentityKeys == {"user_id", "session_id", "user_email", "user_role"}

\* validateSession ran for this request, for this session of the store
ResolvedFor(s) == req.resolved /\ req.token.sessionId = s /\ s \in DOMAIN store

\* the first cache read missed or failed, and the lookup found a record
FellBackOn(s) == ResolvedFor(s) /\ req.cacheGet # "hit" /\ req.answer = "found"

----------------------------------------------------------------------------
(* C1 *)

\* the times from which a session is unusable at its source: its logout, its expiry
UnusableFrom(session) ==
    {session.expiresAt} \cup
    (IF session.logoutAt = NilTime THEN {} ELSE {session.logoutAt[1]})

\* C1: a session that became unusable at its source (logged out, or past
\* expiresAt) is accepted by validateSession for at most one cache expiration
\* after that: no resolution later than that returns true, however often the
\* session was resolved in between.
C1_BoundedStaleness ==
    \A s \in SessionIds :
        ResolvedFor(s) /\ req.valid =>
            \A d \in UnusableFrom(store[s]) : req.at <= d + SessionExpirationMinutes

----------------------------------------------------------------------------
(* C2 *)

\* C2: after a cache miss and a fallback that found (userId, sessionId) valid,
\* every validateSession for the same pair within one expiration is served from
\* the cache: it makes no authoritative lookup (one lookup for N resolutions).
C2_OneLookupPerWindow ==
    req.resolved /\ req.fillOpen /\ req.answer # "error" =>
        req.lookups = 0 /\ req.valid

----------------------------------------------------------------------------
(* C3 *)

\* C3: when the source reports that the session does not exist, validateSession
\* returns false with no error and the request is rejected with 401, not 500.
C3_NotFoundIsInvalid ==
    req.resolved /\ req.answer = "notfound" =>
        /\ ~req.valid
        /\ req.err = ""
        /\ Status = 401

----------------------------------------------------------------------------
(* C4 *)

\* C4: on the fallback path validateSession returns true only if now is
\* strictly less than expiresAt: a session whose expiresAt equals now is expired.
C4_ExpiryIsStrict ==
    \A s \in SessionIds :
        FellBackOn(s) /\ req.valid => req.at < store[s].expiresAt

----------------------------------------------------------------------------
(* C5 *)

\* C5: on a cache miss, a record with logoutAt set makes validateSession return
\* false with no error, also when the record is active and unexpired, and the
\* call writes nothing to the cache.
C5_LoggedOutIsRejectedUncached ==
    [][(/\ req.pc = "auth"
        /\ req'.resolved
        /\ req'.cacheGet = "miss"
        /\ req'.answer = "found"
        /\ store[req'.token.sessionId].logoutAt # NilTime)
       => (/\ ~req'.valid
           /\ req'.err = ""
           /\ cache' = cache)]_vars

\* a logged-out session that is still active and unexpired was looked up and refused
C5_Witness ==
    \E s \in SessionIds :
        /\ FellBackOn(s)
        /\ req.cacheGet = "miss"
        /\ store[s].logoutAt # NilTime
        /\ store[s].isActive
        /\ req.at < store[s].expiresAt
        /\ ~req.valid
        /\ Status = 401

----------------------------------------------------------------------------
(* C6 *)

\* C6 as claimed: on a cache hit validateSession returns true without any call
\* to the authoritative session source.
C6_HitMakesNoCall ==
    req.resolved /\ req.cacheGet = "hit" =>
        req.valid /\ req.lookups = 0 /\ req.updates = 0

\* C6, amended: on a cache hit validateSession returns true without any lookup
\* at the authoritative source; the remote variant makes no call to it at all,
\* the local variant makes one, the UpdateActivity write.
C6_HitMakesNoLookup ==
    req.resolved /\ req.cacheGet = "hit" =>
        /\ req.valid
        /\ req.err = ""
        /\ req.lookups = 0
        /\ req.answer = "none"
        /\ req.updates = (IF variant = "local" THEN 1 ELSE 0)

\* a request was resolved by a cache hit
C6_Witness == req.resolved /\ req.cacheGet = "hit" /\ req.valid /\ req.pc = "authz"

----------------------------------------------------------------------------
(* C7 *)

\* a bearer token was extracted and verified, the session resolved to true and
\* the role is admin
PassedEveryGate ==
    /\ req.token # EmptyToken
    /\ validateJWTToken(variant, req.token) = ""
    /\ req.resolved /\ req.valid /\ req.err = "" /\ ~req.panicked
    /\ req.token.role = "admin"

\* C7: the protected handler runs if and only if the request passed every gate
\* (token extracted and verified, session resolved to true, role admin); every
\* rejection aborts the chain with one response of status 401, 403 or 500.
C7_HandlerOnlyAfterEveryGate ==
    /\ req.handlerRan => PassedEveryGate /\ ~req.aborted
    /\ Done /\ PassedEveryGate => req.handlerRan
    /\ req.pc = "handler" => PassedEveryGate
    /\ req.aborted =>
         /\ Done
         /\ ~req.handlerRan
         /\ Len(req.responses) = 1
         /\ Status \in {401, 403, 500}
    /\ Done /\ ~req.handlerRan /\ ~req.panicked => req.aborted

\* a request went through every gate and its handler ran
C7_Witness == Done /\ req.handlerRan /\ PassedEveryGate

----------------------------------------------------------------------------
(* C8 *)

\* stage name is at position i of the request's stages
StagePosition(name) == {i \in 1..Len(req.stages) : req.stages[i] = name}

\* C8 as claimed: the activity event of a request is published only after that
\* request's role check has run.
C8_ActivityAfterRoleCheck ==
    \A i \in StagePosition("activity") : \E j \in StagePosition("authz") : j < i

\* the order in which a request goes through the stages
StageOrder ==
    IF variant = "remote"
    THEN <<"token", "session", "activity", "context", "authz", "handler">>
    ELSE <<"token", "session", "context", "authz", "handler">>

\* C8, amended: within one request the stages run strictly in the order token
\* verification, session resolution, activity publication, role check: the
\* activity event is published by RequireAuth, after the session resolved to
\* true and before the role check runs (the local variant publishes nothing).
C8_ActivityBeforeRoleCheck ==
    /\ \E n \in 0..Len(StageOrder) : req.stages = SubSeq(StageOrder, 1, n)
    /\ req.publishCalls = Cardinality(StagePosition("activity"))
    /\ StagePosition("activity") # {} => req.resolved /\ req.valid

\* a request's activity was published and its role check has run
C8_Witness ==
    /\ StagePosition("activity") # {}
    /\ StagePosition("authz") # {}
    /\ req.published # << >>

----------------------------------------------------------------------------
(* C9 *)

\* the cache without the entry of a key
Without(cch, key) == [k \in DOMAIN cch \ {key} |-> cch[k]]

\* C9: a failing cache never blocks or fails a request: when the cache read
\* fails validateSession asks the authoritative source, and what it returns is
\* what it returns on a plain miss; a failing cache write changes nothing of
\* what it returns.
C9_CacheFailureIsAMiss ==
    /\ req.pc = "auth" =>
       \A u \in UserIds, s \in SessionIds, f \in Faults :
         LET failing == validateSession(variant, cache, store, s, u, now,
                                        [f EXCEPT !.get = "err"])
             plain   == validateSession(variant, Without(cache, redisKey(u, s)), store,
                                        s, u, now, [f EXCEPT !.get = "ok"])
             unsaved == validateSession(variant, cache, store, s, u, now,
                                        [f EXCEPT !.get2 = "err", !.set = "err"])
             saved   == validateSession(variant, cache, store, s, u, now,
                                        [f EXCEPT !.get2 = "ok", !.set = "ok"])
         IN  /\ failing.lookups = 1
             /\ failing.valid = plain.valid
             /\ failing.err = plain.err
             /\ failing.panicked = plain.panicked
             /\ failing.store = plain.store
             /\ unsaved.valid = saved.valid
             /\ unsaved.err = saved.err
             /\ unsaved.panicked = saved.panicked
    /\ req.resolved /\ req.cacheGet = "error" => req.lookups = 1
    /\ req.resolved /\ req.cacheErr /\ req.err # "" =>
         req.answer \in {"error", "notfound"}
    /\ req.resolved /\ req.cacheErr /\ req.answer = "found" /\ ~req.valid =>
         SessionRejected(store[req.token.sessionId], req.at)

\* the cache read failed and the request went on to its handler
C9_Witness == Done /\ req.handlerRan /\ req.cacheGet = "error" /\ req.answer = "found"

----------------------------------------------------------------------------
(* C10 *)

\* RequireAuth answered 500 "Session validation error" and stopped the chain
\* with no identity attached
RejectedAsValidationError ==
    /\ req.err # ""
    /\ ~req.valid
    /\ Done
    /\ req.aborted
    /\ req.responses = <<[status |-> 500, error |-> "Session validation error"]>>
    /\ DOMAIN req.ctx \cap IdentityKeys = {}
    /\ ~req.handlerRan

\* C10 as claimed: any transport or storage error from the authoritative
\* session source makes validateSession return an error and RequireAuth answer
\* 500 "Session validation error", abort, attach no identity, invoke no handler.
C10_AnySourceErrorIs500 ==
    req.resolved /\ (req.answer = "error" \/ req.updateErr) => RejectedAsValidationError

\* C10, amended: any transport or storage error of the authoritative session
\* lookup (GetSessionById, GetByID) makes validateSession return an error and
\* RequireAuth answer 500 "Session validation error", abort, attach no identity
\* and invoke no handler; an error of the local variant's UpdateActivity write
\* is dropped and fails nothing.
C10_LookupErrorIs500 ==
    /\ req.resolved /\ req.answer = "error" => RejectedAsValidationError
    /\ req.resolved /\ req.updateErr =>
         req.valid /\ req.err = "" /\ IdentityKeys \subseteq DOMAIN req.ctx

\* the lookup failed and the request was answered 500
C10_Witness == req.resolved /\ req.answer = "error" /\ Status = 500

----------------------------------------------------------------------------
(* C11 *)

\* C11: a request never waits forever for the authoritative session lookup:
\* whenever a lookup is pending, a deadline is running that abandons the call
\* and ends the request with 500 "Session validation error" and no handler.
C11_PendingLookupIsAbandoned ==
    req.pc = "lookup" => ENABLED LookupDeadline

----------------------------------------------------------------------------
(* C12 *)

\* PublishActivityWithDetails was called for this request and returned an error
PublishFailed == req.publishCalls > 0 /\ req.published = << >>

\* C12: a failed activity publish after a valid authentication aborts and
\* reverses nothing: RequireAuth attaches the identity and hands over to the
\* next stage, RequireAuth writes no response, and the response of an admin's
\* request is the one its handler writes.
C12_PublishFailureIsNotFatal ==
    PublishFailed =>
        /\ req.resolved /\ req.valid
        /\ req.pc \in {"authz", "handler", "done"}
        /\ \A k \in IdentityKeys : k \in DOMAIN req.ctx
        /\ req.ctx["user_id"] = req.token.userId
        /\ req.ctx["user_role"] = req.token.role
        /\ req.pc = "authz" => req.responses = << >> /\ ~req.aborted
        /\ req.aborted => req.token.role # "admin" /\ Status = 403
        /\ Done /\ req.token.role = "admin" =>
             /\ req.handlerRan
             /\ Len(req.responses) = 1
             /\ Status \in HandlerStatuses
             /\ ErrorText = ""

\* the publish failed and the request was answered 200 by its handler
C12_Witness == PublishFailed /\ Done /\ req.handlerRan /\ Status = 200

----------------------------------------------------------------------------
(* C13 *)

\* RequireAdminRights has run for this request
RoleChecked == StagePosition("authz") # {}

----------------------------------------------------------------------------
(* C14 *)

\* RequireAuth has read the request's Authorization header
HeaderRead == req.pc \notin {"idle", "auth"}

\* the header is absent, does not start with "Bearer ", or carries no token
NoBearerToken == req.header.scheme # "Bearer " \/ req.header.rest = EmptyToken

\* C14: a request whose Authorization header is absent, does not start with
\* "Bearer " or carries an empty token is answered 401 "Authorization token is
\* required", and no token verification, no session lookup (cache or source)
\* and no activity publish has taken place.
C14_NoBearerTokenIs401 ==
    HeaderRead /\ NoBearerToken =>
        /\ Done /\ req.aborted /\ ~req.handlerRan
        /\ req.responses =
             <<[status |-> 401, error |-> "Authorization token is required"]>>
        /\ req.stages = << >>
        /\ req.verifyErr = ""
        /\ ~req.resolved
        /\ req.cacheGet = "none"
        /\ req.lookups = 0 /\ req.updates = 0
        /\ req.publishCalls = 0
        /\ DOMAIN req.ctx \cap IdentityKeys = {}

\* a request with a header of another scheme was answered 401
C14_Witness ==
    /\ Done
    /\ req.header.scheme = "Basic "
    /\ req.header.rest # EmptyToken
    /\ ErrorText = "Authorization token is required"

----------------------------------------------------------------------------
(* C15 *)

\* RequireAuth has handed a bearer token to validateJWTToken
TokenVerified == HeaderRead /\ ~NoBearerToken

\* the error validateJWTToken has for a token of the wrong type
WrongKindError == IF variant = "remote" THEN "invalid token claims" ELSE "invalid token type"

\* C15: for every token whose token type is not "access", validateJWTToken
\* fails with the wrong-kind error, whether or not the signature is valid.
C15_WrongKindWhateverTheSignature ==
    TokenVerified /\ req.token.form = "jwt" /\ req.token.tokenType # "access" =>
        req.verifyErr = WrongKindError

----------------------------------------------------------------------------
(* C16 *)

\* the token is well formed and signed, and its exp has passed
ExpiredToken(tok) == ParseWithClaims(tok) = "token is expired"

\* the tokens that are invalid for another reason than their expiry
OtherwiseInvalid ==
    {tok \in Tokens : ~tok.expired /\ validateJWTToken(variant, tok) # ""}

\* C16: the error validateJWTToken returns for an expired token is an expiry
\* error, different from the error it returns for any token that is invalid
\* for another reason (bad signature, wrong algorithm, malformed, wrong kind).
C16_ExpiryErrorIsDistinct ==
    TokenVerified /\ ExpiredToken(req.token) =>
        /\ req.verifyErr # ""
        /\ \A tok \in OtherwiseInvalid : req.verifyErr # validateJWTToken(variant, tok)

----------------------------------------------------------------------------
(* C17 *)

\* what makes a token fail verification: it does not parse, its method is not
\* HMAC, its signature is wrong, it is expired, or its type is not "access"
TokenInvalid(tok) == ParseWithClaims(tok) # "" \/ tok.tokenType # "access"

\* C17: any error of the token verification makes RequireAuth answer 401 and
\* abort, and no session lookup (cache or authoritative source) and no activity
\* publish is made for that request.
C17_VerifyErrorIs401 ==
    TokenVerified /\ (TokenInvalid(req.token) \/ req.verifyErr # "") =>
        /\ req.verifyErr # ""
        /\ Done /\ req.aborted /\ ~req.handlerRan
        /\ req.responses = <<[status |-> 401, error |-> "Invalid or expired token"]>>
        /\ ~req.resolved
        /\ req.cacheGet = "none"
        /\ req.lookups = 0 /\ req.updates = 0
        /\ req.publishCalls = 0
        /\ DOMAIN req.ctx \cap IdentityKeys = {}

\* a refresh token with a valid signature was refused with 401
C17_Witness ==
    /\ TokenVerified
    /\ ParseWithClaims(req.token) = ""
    /\ req.token.tokenType = "refresh"
    /\ Status = 401

----------------------------------------------------------------------------
(* C18 *)

\* the faults that leave the session source in order
SourceInOrder == {f \in Faults : f.lookup = "ok"}

\* C18: resolving the same valid session (active, not logged out, not expired
\* at its source) twice in immediate succession returns true both times, and
\* no step of the pipeline changes a record's active flag, expiresAt or
\* logoutAt: all it may write is the last-activity time.
C18_ResolutionIsIdempotent ==
    [][/\ req.pc # "idle" =>
           /\ DOMAIN store' = DOMAIN store
           /\ \A s \in DOMAIN store : Correctness(store'[s]) = Correctness(store[s])
       /\ req.pc = "idle" /\ req'.pc = "auth" =>
             \A u \in UserIds, s \in SessionIds, f \in SourceInOrder, g \in SourceInOrder :
                LET first  == validateSession(variant, cache, store, s, u, now, f)
                    second == validateSession(variant, first.cache, first.store,
                                              s, u, now, g)
                IN  s \in DOMAIN store /\ ~SessionRejected(store[s], now) =>
                      /\ first.valid /\ first.err = ""
                      /\ second.valid /\ second.err = ""
                      /\ \A x \in DOMAIN store :
                            Correctness(second.store[x]) = Correctness(store[x])
    ]_vars

\* a session that a fallback found valid was resolved again at the same time,
\* from the cache, and its record has the last-activity time of that moment
C18_Witness ==
    /\ variant = "local"
    /\ req.resolved /\ req.valid /\ req.cacheGet = "hit"
    /\ hist.fill # << >>
    /\ hist.fill[1].sessionId = req.token.sessionId
    /\ hist.fill[1].at = req.at
    /\ req.at > 0
    /\ store[req.token.sessionId].lastActiveAt = req.at

----------------------------------------------------------------------------
(* C19 *)

\* RequireAuth has attached the identity to the request context
IdentityAttached == StagePosition("context") # {}

\* C19: when RequireAuth succeeds the context holds user_id, session_id,
\* user_email and user_role equal to the claims of the verified token, and they
\* stay so through RequireAdminRights and the handler.
C19_ContextHoldsTheClaims ==
    /\ IdentityAttached =>
         /\ IdentityKeys \subseteq DOMAIN req.ctx
         /\ req.ctx["user_id"] = req.token.userId
         /\ req.ctx["session_id"] = req.token.sessionId
         /\ req.ctx["user_email"] = req.token.email
         /\ req.ctx["user_role"] = req.token.role
         /\ req.token = req.header.rest
         /\ validateJWTToken(variant, req.token) = ""
    /\ req.pc \in {"authz", "handler"} \/ req.handlerRan => IdentityAttached

\* the handler ran on the claims of user b's token for session a
C19_Witness ==
    /\ req.handlerRan
    /\ req.token.userId = "b"
    /\ req.ctx["user_id"] = "b"
    /\ req.ctx["session_id"] = "a"

----------------------------------------------------------------------------
(* C20 *)

\* C20: the pipeline never retries: one request makes at most one authoritative
\* session lookup and at most one channel.Publish, whatever they return, so at
\* most one activity event is delivered for it.
C20_NoRetry ==
    /\ req.lookups <= 1
    /\ req.publishCalls <= 1
    /\ Len(req.published) <= req.publishCalls
    /\ req.resolved /\ req.answer # "none" => req.lookups = 1
    /\ req.pc = "lookup" => req.lookups = 0 /\ req.publishCalls = 0

\* a request whose one publish failed went on with nothing delivered
C20_Witness ==
    /\ Done
    /\ req.lookups = 1
    /\ req.publishCalls = 1
    /\ req.published = << >>

----------------------------------------------------------------------------
(* C21 *)

\* what the session source answers in either variant: the record, no record,
\* or an error
SourceAnswers == {f \in Faults : f.lookup \in {"ok", "err"}}

\* C21: the two variants of the session source are interchangeable: in the
\* same cache and the same session state validateSession returns the same
\* (valid, error) and makes the same writes to the cache and to the source,
\* whichever variant is wired.
C21_VariantsAreInterchangeable ==
    req.pc = "auth" =>
        \A u \in UserIds, s \in SessionIds, f \in SourceAnswers :
            LET remote == validateSessionRemote(cache, store, s, u, now, f)
                local  == validateSessionLocal(cache, store, s, u, now, f)
            IN  /\ remote.valid = local.valid
                /\ (remote.err = "") = (local.err = "")
                /\ remote.cache = local.cache
                /\ remote.store = local.store
                /\ remote.updates = local.updates

----------------------------------------------------------------------------
(* C22 *)

\* RequireAuth has just returned to the chain with this request accepted
JustAuthenticated == req.pc = "authz" /\ req.resolved /\ req.valid

\* C22: every cache entry of a session is stored under the composite key
\* session:{userId}:{sessionId}, the key validateSession reads: after a
\* successful fallback for (userId, sessionId) with the cache in order,
\* GetActiveSession on that key finds the entry.
C22_EntriesUnderCompositeKey ==
    /\ \A k \in DOMAIN cache :
          k = redisKey(cache[k].session.userId, cache[k].session.sessionId)
    /\ JustAuthenticated /\ req.lookups = 1 /\ ~req.cacheErr
          /\ req.at < store[req.token.sessionId].lastActiveAt + SessionExpirationMinutes =>
          GetActiveSession(cache, redisKey(req.token.userId, req.token.sessionId),
                           "ok").session # NilSession

----------------------------------------------------------------------------
(* C23 *)

\* C23: every validateSession that returns true, through the fallback or on a
\* cache hit, leaves a cache entry of the session whose TTL is the configured
\* session expiration, whatever the last-activity time of the record is.
C23_FreshEntryWithConfiguredTTL ==
    JustAuthenticated /\ ~req.cacheErr =>
        \E k \in DOMAIN cache :
            /\ cache[k].session.sessionId = req.token.sessionId
            /\ cache[k].expireAt = req.at + SessionExpirationMinutes

----------------------------------------------------------------------------
(* C24 *)

\* validateSession was answered by the cache
ResolvedByHit == req.resolved /\ req.cacheGet = "hit"

\* C24 as claimed: on every cache hit validateSession refreshes the last
\* activity at the cache entry and at the authoritative source before it
\* returns true.
C24_HitRefreshesCacheAndSource ==
    ResolvedByHit => req.valid /\ req.updates = 1

\* C24, amended: on every cache hit validateSession refreshes the cache entry
\* (UpdateSessionActivity: last activity now, full TTL) before it returns true;
\* the local variant also calls UpdateActivity at the source, the remote
\* variant makes no call to the source in validateSession, and RequireAuth
\* publishes the activity event after validateSession has returned.
C24_HitRefreshesCache ==
    ResolvedByHit =>
        /\ req.valid /\ req.err = ""
        /\ JustAuthenticated /\ ~req.cacheErr =>
             LET key == redisKey(req.token.userId, req.token.sessionId)
             IN  /\ key \in DOMAIN cache
                 /\ cache[key].session.lastActiveAt = req.at
                 /\ cache[key].expireAt = req.at + SessionExpirationMinutes
        /\ variant = "local" =>
             /\ req.updates = 1
             /\ JustAuthenticated /\ ~req.updateErr
                   /\ req.token.sessionId \in DOMAIN store
                   /\ store[req.token.sessionId].isActive =>
                   store[req.token.sessionId].lastActiveAt = req.at
        /\ variant = "remote" =>
             /\ req.updates = 0
             /\ req.publishCalls = 1
             /\ \A i \in StagePosition("activity") :
                   \E j \in StagePosition("session") : j < i

\* a cache hit later than the fill refreshed the entry to the time of the hit
C24_Witness ==
    /\ ResolvedByHit /\ JustAuthenticated
    /\ req.at > 0
    /\ redisKey(req.token.userId, req.token.sessionId) \in DOMAIN cache
    /\ cache[redisKey(req.token.userId, req.token.sessionId)].session.lastActiveAt = req.at

----------------------------------------------------------------------------
(* C25 *)

----------------------------------------------------------------------------
(* C26 *)

\* C26: GetSessionById returns a session or an error for every response of the
\* auth service, also a 200 without a session, so validateSession never
\* dereferences a nil session.
C26_NoNilDereference ==
    /\ ~req.panicked
    /\ req.resolved /\ req.lookups = 1 /\ req.err = "" => req.answer = "found"

----------------------------------------------------------------------------
(* C27 *)

\* RequireAuth answered the request itself and stopped the chain
RejectedByRequireAuth == Done /\ req.aborted /\ ~RoleChecked

\* C27: for a request RequireAuth rejects (no token, invalid token, lookup
\* error, session not valid) no activity event is published and no identity
\* key is set in the context; an activity event is published only after
\* validateSession returned true for that request.
C27_RejectedLeavesNoTrace ==
    /\ RejectedByRequireAuth =>
         /\ req.publishCalls = 0
         /\ req.published = << >>
         /\ DOMAIN req.ctx \cap IdentityKeys = {}
    /\ req.publishCalls > 0 \/ req.published # << >> =>
         /\ req.resolved /\ req.valid /\ req.err = ""
         /\ \A i \in StagePosition("activity") : \E j \in StagePosition("session") : j < i

\* a request of the remote variant was rejected because its session is not valid
C27_Witness ==
    /\ variant = "remote"
    /\ RejectedByRequireAuth
    /\ req.resolved /\ ~req.valid /\ req.err = ""
    /\ Status = 401

----------------------------------------------------------------------------
(* C28 *)

\* C28: updateUserStatusHandler writes exactly one JSON response for every
\* outcome of the status update: success, user not found, invalid parameters
\* and any other error.
C28_OneResponsePerRequest ==
    req.handlerRan => Len(req.responses) = 1

----------------------------------------------------------------------------
(* C29 *)

\* C29: after RabbitMQ.Close has returned nil, every resource the client holds
\* is closed: the channel and the connection, not the channel alone.
C29_CloseClosesEverything ==
    rabbit.returned = "nil" =>
        /\ rabbit.channel \in {"nil", "closed"}
        /\ rabbit.conn \in {"nil", "closed"}

----------------------------------------------------------------------------
(* C30 *)

\* C30: with the configured minimum and maximum query limits inside [1, 100],
\* the request GetAllUsers passes to the repository has page >= 1 and
\* 1 <= limit <= 100: a limit <= 0 is replaced by the configured minimum, a
\* limit > 100 by the configured maximum, a page <= 0 by 1, and the division
\* for the total pages never divides by zero.
C30_LimitAndPageNormalised ==
    search.pc = "done" =>
        LET passed == search.passed[1]
            asked  == search.request
        IN  /\ passed.page >= 1
            /\ 1 <= passed.limit /\ passed.limit <= LimitCap
            /\ asked.limit <= 0 => passed.limit = search.file.minQueryLimit
            /\ asked.limit > LimitCap => passed.limit = search.file.maxQueryLimit
            /\ asked.limit > 0 /\ asked.limit <= LimitCap => passed.limit = asked.limit
            /\ asked.page <= 0 => passed.page = 1
            /\ asked.page > 0 => passed.page = asked.page
            /\ ~search.dividedByZero

====
